---- MODULE Spec2Model ----
(***************************************************************************)
(* The metadata update script of eslint-stylistic (scripts/update.ts):     *)
(* run() discovers the packages, and for each one reads its rule catalog   *)
(* (readPackage), writes the rule index, rules.md, the per-rule            *)
(* types.d.ts (generateDTS), the package declarations and the export map;  *)
(* it then merges the js, ts and jsx catalogs into the                     *)
(* '@stylistic/eslint-plugin' record and writes metadata.ts.               *)
(*                                                                         *)
(* Strings are sequences of tokens: a token is a maximal run of word       *)
(* characters ("eslint", "js") or one separator ("-", ".", "/"), so that   *)
(* concatenation is \o and two strings are equal exactly when their token  *)
(* sequences are.  An optional value (undefined or a value) is the empty   *)
(* sequence or a one-element sequence.                                     *)
(***************************************************************************)
EXTENDS Naturals, Sequences, FiniteSets, TLC

VARIABLES
  repo,        \* the rule directories and rule modules of every package (input, never written)
  unwritable,  \* the paths fs.writeFile fails on (input, never written)
  fs,          \* the files the script reads and writes: absolute path -> content
  proc,        \* the node process: "running", "exited" or "crashed"
  pc,          \* where run() stands
  k,           \* index into Paths of the package being processed
  loading,     \* the readPackage call in progress: its locals and the settled loads
  pkg,         \* the PackageInfo readPackage returned for package k
  packages,    \* run()'s list of PackageInfo
  tasks,       \* the async callbacks generateDTS started: rule entry -> state
  mode,        \* what the runtime does with an unhandled rejection
  writeFailed, \* some fs.writeFile of this run has failed
  assembled,   \* the PackageInfo records as readPackage returned them, in order
  runNo,       \* 1 in the first run of the script, 2 in the second
  firstRun     \* the files as the first run left them

vars == <<repo, unwritable, fs, proc, pc, k, loading, pkg, packages, tasks, mode,
          writeFailed, assembled, runNo, firstRun>>

(***************************************************************************)
(* Bounds of the model.                                                    *)
(***************************************************************************)
MaxNames == 2     \* how many rule names the catalogs draw from
MaxSchemas == 2   \* longest options schema array of a rule module

(***************************************************************************)
(* Optional values and strings.                                            *)
(***************************************************************************)
None == <<>>
Some(v) == <<v>>
IsSome(o) == Len(o) = 1
Get(o) == o[1]

Min(S) == CHOOSE x \in S : \A y \in S : x <= y

StartsAt(s, pat, i) ==
  /\ i + Len(pat) - 1 <= Len(s)
  /\ \A j \in 1..Len(pat) : s[i + j - 1] = pat[j]

\* String.prototype.replace with a string pattern: the first occurrence only.
Replace(s, pat, rep) ==
  LET hits == {i \in 1..Len(s) : StartsAt(s, pat, i)}
  IN IF hits = {} THEN s
     ELSE LET i == Min(hits)
          IN SubSeq(s, 1, i - 1) \o rep \o SubSeq(s, i + Len(pat), Len(s))

\* The tokens in ascending order of their UTF-16 code units ('-' 45, '.' 46,
\* '/' 47, then the letters).  A word is always followed by a separator or by
\* the end of the string, so comparing token by token is comparing unit by unit.
TokenOrder ==
  <<"-", ".", "/", "any", "eslint", "js", "json", "jsx", "metadata", "no",
    "package", "packages", "plugin", "quotes", "repo", "rules", "ts", "var">>

Rank(tok) == CHOOSE i \in 1..Len(TokenOrder) : TokenOrder[i] = tok

\* a < b as Array.prototype.sort() without a comparator orders two strings.
LexLess(a, b) ==
  \E i \in 1..(Len(a) + 1) :
    /\ i <= Len(b)
    /\ \A j \in 1..(i - 1) : a[j] = b[j]
    /\ \/ i = Len(a) + 1
       \/ Rank(a[i]) < Rank(b[i])

RECURSIVE SortStrings(_)
SortStrings(S) ==
  IF S = {} THEN <<>>
  ELSE LET m == CHOOSE x \in S : \A y \in S \ {x} : LexLess(x, y)
       IN <<m>> \o SortStrings(S \ {m})

Range(s) == {s[i] : i \in 1..Len(s)}

RECURSIVE Flatten(_)
Flatten(ss) == IF ss = <<>> THEN <<>> ELSE Head(ss) \o Flatten(Tail(ss))

(***************************************************************************)
(* node:path on token sequences.                                           *)
(***************************************************************************)
Cwd == <<"/", "repo">>

Join(a, b) == a \o <<"/">> \o b

\* path.relative(from, to) for a path below the first one.
Relative(from, to) == SubSeq(to, Len(from) + 2, Len(to))

LastSlash(p) ==
  LET at == {i \in 1..Len(p) : p[i] = "/"}
  IN IF at = {} THEN 0 ELSE CHOOSE i \in at : \A j \in at : j <= i

Basename(p) == SubSeq(p, LastSlash(p) + 1, Len(p))
Dirname(p) == SubSeq(p, 1, LastSlash(p) - 1)

\* A path given to fs is resolved against the working directory.
Abs(p) == IF Len(p) > 0 /\ p[1] = "/" THEN p ELSE Join(Cwd, p)

\* name.replace(/\.\w+$/, ''): a final extension is dropped.
StripExt(s) ==
  IF Len(s) >= 2 /\ s[Len(s) - 1] = "." /\ s[Len(s)] \notin {"-", ".", "/"}
  THEN SubSeq(s, 1, Len(s) - 2) ELSE s

Upper(w) ==
  CASE w = "no" -> "No" [] w = "var" -> "Var" [] w = "any" -> "Any"
    [] w = "quotes" -> "Quotes" [] OTHER -> w

\* camelCase (lines 312-316): a '-' before a lower-case letter is dropped and
\* the letter is upper-cased.
RECURSIVE camelCase(_)
camelCase(s) ==
  IF s = <<>> THEN <<>>
  ELSE IF Head(s) = "-" /\ Len(s) >= 2 /\ s[2] \notin {"-", ".", "/"}
       THEN <<Upper(s[2])>> \o camelCase(SubSeq(s, 3, Len(s)))
       ELSE <<Head(s)>> \o camelCase(Tail(s))

\* pascalCase of change-case: the words, each capitalised, without separators.
RECURSIVE pascalCase(_)
pascalCase(s) ==
  IF s = <<>> THEN <<>>
  ELSE IF Head(s) \in {"-", ".", "/"} THEN pascalCase(Tail(s))
       ELSE <<Upper(Head(s))>> \o pascalCase(Tail(s))

(***************************************************************************)
(* The repository the script runs in: the packages fast-glob finds, their  *)
(* rule directories and the rule modules import() loads.                   *)
(***************************************************************************)
At == <<"@stylistic", "/">>                       \* '@stylistic/'
PluginPrefix == <<"eslint", "-", "plugin", "-">>  \* 'eslint-plugin-'

JsDir == PluginPrefix \o <<"js">>
JsxDir == PluginPrefix \o <<"jsx">>
TsDir == PluginPrefix \o <<"ts">>
GeneralDir == <<"eslint", "-", "plugin">>
MetadataDir == <<"metadata">>
PackageDirs == {JsDir, JsxDir, TsDir, GeneralDir, MetadataDir}

\* The "name" of each package's package.json.
ManifestName(dir) ==
  IF dir = MetadataDir THEN <<"@eslint", "-", "stylistic", "/", "metadata">>
  ELSE At \o dir

GeneralName == At \o GeneralDir   \* '@stylistic/eslint-plugin' (line 46)

PackagesRoot == Join(Cwd, <<"packages">>)
ManifestFile == <<"package", ".", "json">>

\* fg('./packages/*/package.json', {absolute: true}).sort() (lines 23-30)
Paths == SortStrings({Join(Join(PackagesRoot, d), ManifestFile) : d \in PackageDirs})

AllRuleNames == << <<"quotes">>, <<"no", "-", "var">>, <<"no", "-", "any">> >>
RuleNames ==
  {AllRuleNames[i] : i \in 1..Min({MaxNames, Len(AllRuleNames)})}

\* Options schemas.  ref is the schema's internal reference ('' for none),
\* defs whether the schema has the top-level $defs the reference names.
ItemsDefs == <<"#", "/", "items", "/", "0", "/", "$defs", "/">>  \* '#/items/0/$defs/'
RootDefs == <<"#", "/", "$defs", "/">>                           \* '#/$defs/'
PlainSchema == [ref |-> <<>>, defs |-> FALSE]
QuirkSchema == [ref |-> ItemsDefs \o <<"x">>, defs |-> TRUE]
BrokenSchema == [ref |-> RootDefs \o <<"y">>, defs |-> FALSE]
Schemas == {PlainSchema, QuirkSchema, BrokenSchema}

SchemaArrays == UNION {[1..n -> Schemas] : n \in 0..MaxSchemas}

\* meta.schema: one schema object, or an array of them.
SchemaDecls ==
  {[array |-> FALSE, items |-> <<s>>] : s \in Schemas}
    \cup {[array |-> TRUE, items |-> a] : a \in SchemaArrays}

\* The meta of a rule that documents itself and declares no options.
DocumentedMeta(dir) ==
  [fixable |-> IF dir = JsDir THEN Some(<<"code">>)
               ELSE IF dir = JsxDir THEN Some(<<"whitespace">>) ELSE None,
   docs |-> Some([description |-> Some(<<"doc", "/">> \o dir),
                  recommended |-> IF dir = TsDir THEN Some(<<"true">>) ELSE None]),
   messages |-> Some(<< <<"foo">>, <<"bar">> >>),
   schema |-> None]

EmptyMeta == [fixable |-> None, docs |-> None, messages |-> None, schema |-> None]

\* What a rule module's default export can look like.
Defaults(dir) ==
  {None, Some([meta |-> None]), Some([meta |-> Some(EmptyMeta)]),
   Some([meta |-> Some(DocumentedMeta(dir))])}
    \cup {Some([meta |-> Some([DocumentedMeta(dir) EXCEPT !.schema = Some(d)])]) :
            d \in SchemaDecls}

Ext(dir) == IF dir = TsDir THEN "ts" ELSE "js"

DocumentedModule(dir) ==
  [ext |-> Ext(dir), default |-> Some([meta |-> Some(DocumentedMeta(dir))])]

NoRules == [n \in {} |-> DocumentedModule(JsDir)]

\* The names the ts and jsx packages share with js.
SharedNames == {AllRuleNames[1], AllRuleNames[2]}

\* Every catalog of js over RuleNames and of ts and jsx over SharedNames,
\* each rule documented.
CatalogRepos ==
  {[d \in PackageDirs |->
      LET S == IF d = JsDir THEN a ELSE IF d = TsDir THEN b
               ELSE IF d = JsxDir THEN c ELSE {}
      IN [n \in S |-> DocumentedModule(d)]] :
     a \in SUBSET RuleNames, b \in SUBSET SharedNames, c \in SUBSET SharedNames}

\* js holds two rules: one of every shape, beside one with a plain schema.
ShapeRepos ==
  {[d \in PackageDirs |->
      IF d = JsDir
      THEN (AllRuleNames[1] :> [ext |-> "js", default |-> m])
             @@ (AllRuleNames[2] :>
                   [ext |-> "ts",
                    default |-> Some([meta |-> Some([DocumentedMeta(d) EXCEPT
                      !.schema = Some([array |-> FALSE, items |-> <<PlainSchema>>])])])])
      ELSE NoRules] :
     m \in Defaults(JsDir)}

\* The '@stylistic/eslint-plugin' directory holds a rule of its own.
GeneralRepos ==
  {[d \in PackageDirs |->
      IF d = GeneralDir THEN [n \in {AllRuleNames[1]} |-> DocumentedModule(d)]
      ELSE IF d = JsDir THEN [n \in S |-> DocumentedModule(d)]
      ELSE NoRules] :
     S \in SUBSET {AllRuleNames[1], AllRuleNames[2]}}

Repos == CatalogRepos \cup ShapeRepos \cup GeneralRepos

\* A JSON text: JSON.parse reads its value, JSON.stringify(v, null, 2) writes
\* the value with two-space indentation whatever the text it came from.
\* An object is the sequence of its <<key, value>> members, in key order.
JSONParse(content) == content[1].value
JSONStringify(v) == [format |-> "indent2", value |-> v]

Lookup(obj, key) ==
  LET at == {i \in 1..Len(obj) : obj[i][1] = key}
  IN IF at = {} THEN None ELSE Some(obj[Min(at)][2])

\* obj[key] = value: an existing member keeps its place, a new one goes last.
SetMember(obj, key, value) ==
  LET at == {i \in 1..Len(obj) : obj[i][1] = key}
  IN IF at = {} THEN Append(obj, <<key, value>>)
     ELSE [obj EXCEPT ![Min(at)] = <<key, value>>]

Manifest(dir) == << <<<<"name">>, ManifestName(dir)>>, <<<<"version">>, <<"1">>>> >>

\* A checkout whose generated files were never written.
FreshFiles ==
  [p \in {Join(Join(PackagesRoot, d), ManifestFile) : d \in PackageDirs} |->
     <<[format |-> "indent2", value |-> Manifest(Relative(PackagesRoot, Dirname(p)))]>>]

(***************************************************************************)
(* readPackage (lines 79-132).                                             *)
(***************************************************************************)
\* lines 92-121: the RuleInfo of one rule directory, from the module import()
\* returned for it.  existsSync(entry) holds when the rule is a .ts file.
RuleInfoOf(path, pkgId, shortId, ruleDir, mod) ==
  LET name == Basename(ruleDir)
      entry == Join(Join(path, ruleDir), name \o <<".", mod.ext>>)
      meta == IF IsSome(mod.default) THEN Get(mod.default).meta ELSE None
      docs == IF IsSome(meta) THEN Get(meta).docs ELSE None
  IN [name |-> name,
      ruleId |-> pkgId \o <<"/">> \o name,
      originalId |->
        Some(IF shortId = <<"js">> THEN name
             ELSE IF shortId = <<"ts">> THEN <<"@typescript", "-", "eslint", "/">> \o name
             ELSE IF shortId = <<"jsx">> THEN <<"react", "/">> \o name
             ELSE <<>>),
      entry |-> Relative(Cwd, entry),
      docsEntry |-> Relative(Cwd, Join(Join(path, ruleDir), <<"README", ".", "md">>)),
      meta |-> [fixable |-> IF IsSome(meta) THEN Get(meta).fixable ELSE None,
                docs |-> [description |-> IF IsSome(docs) THEN Get(docs).description ELSE None,
                          recommended |-> IF IsSome(docs) THEN Get(docs).recommended ELSE None]]]

\* A collection that appends each result as its load settles.
CollectAsSettled(settled, i, rule) ==
  [settled EXCEPT ![Min({j \in 1..Len(settled) : ~IsSome(settled[j])})] = Some(rule)]

\* Promise.all (line 90) keeps each result at the index of its promise.
Collect(settled, i, rule) == [settled EXCEPT ![i] = Some(rule)]

\* lines 80-88: the locals of readPackage before the loads start.
ReadPackageLocals(path, files, catalog) ==
  LET dir == Relative(PackagesRoot, path)
      pkgId == At \o Replace(dir, PluginPrefix, <<>>)
      rulesDir == SortStrings({<<"rules", "/">> \o n : n \in DOMAIN catalog[dir]})
  IN [path |-> path,
      dir |-> dir,
      pkgId |-> pkgId,
      shortId |-> Replace(pkgId, At, <<>>),
      name |-> Get(Lookup(JSONParse(files[Join(path, ManifestFile)]), <<"name">>)),
      rulesDir |-> rulesDir,
      settled |-> [i \in 1..Len(rulesDir) |-> None]]

\* lines 125-131
PackageInfoOf(l) ==
  [name |-> l.name,
   shortId |-> l.shortId,
   pkgId |-> l.pkgId,
   path |-> Relative(Cwd, l.path),
   rules |-> [i \in 1..Len(l.settled) |-> Get(l.settled[i])]]

(***************************************************************************)
(* The writers: what each one writes for a PackageInfo.  A file's content  *)
(* is the sequence of the chunks the code joins.                           *)
(***************************************************************************)
Header == <<"/* GENERATED, DO NOT EDIT DIRECTLY */", "\n">>   \* lines 16-18

\* The truthiness tests (x ? a : b, x || '') on an optional string or boolean.
Truthy(o) == IsSome(o) /\ Get(o) \notin {<<>>, <<"false">>}
OrEmpty(o) == IF Truthy(o) THEN Get(o) ELSE <<>>
Check(o) == IF Truthy(o) THEN <<"(check)">> ELSE <<>>

\* A write that appends to the file instead of replacing it.
AppendFile(files, path, content) ==
  IF Abs(path) \in DOMAIN files
  THEN [files EXCEPT ![Abs(path)] = @ \o content]
  ELSE files @@ (Abs(path) :> content)

\* fs.writeFile replaces the file's content.
WriteFile(files, path, content) ==
  IF Abs(path) \in DOMAIN files
  THEN [files EXCEPT ![Abs(path)] = content]
  ELSE files @@ (Abs(path) :> content)

\* lines 138-157
RulesIndexFile(p) == Join(Join(p.path, <<"rules">>), <<"index", ".", "ts">>)
RulesIndex(p) ==
  LET n == Len(p.rules)
      nm(i) == p.rules[i].name
  IN <<Header,
       IF p.shortId \in {<<"js">>, <<"jsx">>} THEN <<"// @ts-nocheck">> ELSE <<>>,
       <<"import type { Rules } from '../dts'">>,
       <<>> >>
     \o [i \in 1..n |->
           <<"import ">> \o camelCase(nm(i)) \o <<" from './">> \o nm(i) \o <<"/">>
             \o nm(i) \o <<"'">>]
     \o << <<>>, <<"export default {">> >>
     \o [i \in 1..n |-> <<"  '">> \o nm(i) \o <<"': ">> \o camelCase(nm(i)) \o <<",">>]
     \o << <<"} as unknown as Rules">>, <<>> >>

\* lines 248-260
ReadmeFile(p) == Join(p.path, <<"rules", ".", "md">>)
Readme(p) ==
  << <<"<!--">>, <<Header[1]>>, <<"-->">>, <<>>, <<"# ">> \o p.name, <<>>,
     <<"| Rule ID | Description | Fixable | Recommended |">>,
     <<"| --- | --- | --- | --- |">> >>
    \o [i \in 1..Len(p.rules) |->
          LET r == p.rules[i]
          IN <<"| [">> \o r.ruleId \o <<"](./rules/">> \o r.name \o <<") | ">>
               \o OrEmpty(r.meta.docs.description) \o <<" | ">> \o Check(r.meta.fixable)
               \o <<" | ">> \o Check(r.meta.docs.recommended) \o <<" |">>]

\* lines 164-203
RuleOptionsFile(p) == Join(Join(p.path, <<"dts">>), <<"rule-options.d.ts">>)
OptionsInterface(p, prefix) ==
  Flatten([i \in 1..Len(p.rules) |->
    LET r == p.rules[i]
        name == StripExt(Basename(r.name))
    IN << <<"  /**">>,
          <<"   * ">> \o OrEmpty(r.meta.docs.description),
          <<"   * @see https://eslint.style/rules/">> \o p.shortId \o <<"/">> \o r.name,
          <<"   */">>,
          <<"  '">> \o prefix \o r.name \o <<"': ">> \o pascalCase(name)
            \o <<"RuleOptions">> >>])
RuleOptions(p) ==
  <<Header>>
    \o [i \in 1..Len(p.rules) |->
          LET name == StripExt(Basename(p.rules[i].name))
          IN <<"import type { RuleOptions as ">> \o pascalCase(name)
               \o <<"RuleOptions } from '../rules/">> \o name \o <<"/types'">>]
    \o << <<>>, <<"export interface RuleOptions {">> >>
    \o OptionsInterface(p, Replace(p.name, PluginPrefix, <<>>) \o <<"/">>)
    \o << <<"}">>, <<>>, <<"export interface UnprefixedRuleOptions {">> >>
    \o OptionsInterface(p, <<>>)
    \o << <<"}">>, <<>> >>

\* lines 205-217
DefineConfigFile(p) == Join(Join(p.path, <<"dts">>), <<"define-config-support.d.ts">>)
DefineConfig ==
  <<Header, <<"import type { RuleOptions } from './rule-options'">>,
    <<"declare module 'eslint-define-config' { CustomRuleOptions extends RuleOptions }">>,
    <<"export {}">> >>

\* lines 224-241: the manifest with its export map replaced.
ExportMap(p) ==
  << << <<".">>, << << <<"types">>, <<"./dts/index.d.ts">> >>,
                    << <<"require">>, <<"./dist/index.js">> >>,
                    << <<"default">>, <<"./dist/index.js">> >> >> >>,
     << <<"./define-config-support">>,
        << << <<"types">>, <<"./dts/define-config-support.d.ts">> >> >> >>,
     << <<"./rule-options">>, << << <<"types">>, <<"./dts/rule-options.d.ts">> >> >> >> >>
    \o [i \in 1..Len(p.rules) |->
          << <<".", "/", "rules", "/">> \o p.rules[i].name,
             <<".", "/", "dist", "/">> \o p.rules[i].name \o <<".", "js">> >>]
UpdatedManifest(files, p) ==
  LET pkgJson == JSONParse(files[Abs(Join(p.path, ManifestFile))])
  IN <<JSONStringify(SetMember(pkgJson, <<"exports">>, ExportMap(p)))>>

(***************************************************************************)
(* generateDTS (lines 263-310): the async callback of one rule.            *)
(***************************************************************************)
RECURSIVE ReplaceAll(_, _, _)
ReplaceAll(s, pat, rep) ==
  LET hits == {i \in 1..Len(s) : StartsAt(s, pat, i)}
  IN IF hits = {} THEN s
     ELSE LET i == Min(hits)
          IN SubSeq(s, 1, i - 1) \o rep
               \o ReplaceAll(SubSeq(s, i + Len(pat), Len(s)), pat, rep)

\* line 275: '#/items/0/$defs/' is rewritten to '#/$defs/' before compiling.
Normalize(schema) == [schema EXCEPT !.ref = ReplaceAll(@, ItemsDefs, RootDefs)]

\* compileSchema rejects a schema whose reference names no definition of it.
Resolves(schema) ==
  \/ schema.ref = <<>>
  \/ StartsAt(schema.ref, RootDefs, 1) /\ schema.defs

Compiled(schema, index) ==
  <<"export type Schema", ToString(index), " = ">>
    \o (IF schema.ref = <<>> THEN <<"{}">> ELSE schema.ref)
Placeholder(index) == <<"export type Schema", ToString(index), " = unknown", "\n">>

\* One try/catch around the compilation of all the schemas of a rule.
CompileOptionsTogether(schemas) ==
  [i \in 1..Len(schemas) |->
     IF \A j \in 1..Len(schemas) : Resolves(Normalize(schemas[j]))
     THEN Compiled(Normalize(schemas[i]), i - 1) ELSE Placeholder(i - 1)]

\* lines 274-291: every schema is compiled on its own, inside its own
\* try/catch; Promise.all keeps the declarations in the order of the schemas.
CompileOptions(schemas) ==
  [i \in 1..Len(schemas) |->
     LET schema == Normalize(schemas[i])
     IN IF Resolves(schema) THEN Compiled(schema, i - 1) ELSE Placeholder(i - 1)]

RECURSIVE JoinWith(_, _)
JoinWith(ss, sep) ==
  IF ss = <<>> THEN <<>>
  ELSE IF Len(ss) = 1 THEN ss[1]
  ELSE ss[1] \o sep \o JoinWith(Tail(ss), sep)

\* lines 269-306, for a module whose default export has a meta.
TypesContent(meta) ==
  LET messageIds == IF IsSome(meta.messages) THEN Get(meta.messages) ELSE <<>>
      schemas == IF IsSome(meta.schema) THEN Get(meta.schema).items ELSE <<>>
      options == CompileOptions(schemas)
      optionTypes == [i \in 1..Len(options) |-> <<"Schema", ToString(i - 1), "?">>]
      ruleOptionTypeValue ==
        IF IsSome(meta.schema) /\ Get(meta.schema).array
        THEN <<"[">> \o JoinWith(optionTypes, <<", ">>) \o <<"]">>
        ELSE IF IsSome(meta.schema) THEN <<"Schema", "0">> ELSE <<"[", "]">>
      ids == JoinWith([i \in 1..Len(messageIds) |-> <<"'">> \o messageIds[i] \o <<"'">>],
                      <<" | ">>)
  IN <<Header>> \o options
       \o << <<"export type RuleOptions = ">> \o ruleOptionTypeValue,
             <<"export type MessageIds = ">> \o (IF ids = <<>> THEN <<"never">> ELSE ids),
             <<>> >>

\* line 308: resolve(cwd, rule.entry, '..', 'types.d.ts')
TypesFile(entry) == Join(Dirname(Join(Cwd, entry)), <<"types", ".", "d", ".", "ts">>)

\* line 267: import(join(cwd, rule.entry))
ImportEntry(catalog, entry) ==
  LET rel == Relative(PackagesRoot, Join(Cwd, entry))
      dir == SubSeq(rel, 1, Min({i \in 1..Len(rel) : rel[i] = "/"}) - 1)
  IN catalog[dir][Basename(Dirname(entry))]

\* line 268: module.default.meta throws when there is no default export;
\* line 269: meta.messages throws when meta is undefined.
ThrowsTypeError(mod) ==
  IF IsSome(mod.default) THEN ~IsSome(Get(mod.default).meta) ELSE TRUE

(***************************************************************************)
(* The merge (lines 43-62) and metadata.ts (lines 64-74).                  *)
(***************************************************************************)
Names(p) == [i \in 1..Len(p.rules) |-> p.rules[i].name]

\* [...new Set(xs)]: the first occurrence of each element, in order.
RECURSIVE Dedupe(_)
Dedupe(xs) ==
  IF xs = <<>> THEN <<>>
  ELSE LET front == Dedupe(SubSeq(xs, 1, Len(xs) - 1))
       IN IF xs[Len(xs)] \in Range(front) THEN front ELSE Append(front, xs[Len(xs)])

\* packages.find(pred): the first element that satisfies it.
FindByShortId(ps, id) == ps[Min({i \in 1..Len(ps) : ps[i].shortId = id})]
IndexOfName(ps, name) == Min({i \in 1..Len(ps) : ps[i].name = name})

\* The union of the names in alphabetical order.
MergedNamesSorted(packageJs, packageTs, packageJsx) ==
  SortStrings(Range(Names(packageJs) \o Names(packageTs) \o Names(packageJsx)))

\* lines 49-53
MergedNames(packageJs, packageTs, packageJsx) ==
  Dedupe(Names(packageJs) \o Names(packageTs) \o Names(packageJsx))

FindRule(p, name) ==
  LET at == {i \in 1..Len(p.rules) : p.rules[i].name = name}
  IN IF at = {} THEN None ELSE Some(p.rules[Min(at)])

\* The last of js, ts, jsx that has the rule.
SourceRuleLastWins(packageJs, packageTs, packageJsx, name) ==
  IF IsSome(FindRule(packageJsx, name)) THEN Get(FindRule(packageJsx, name))
  ELSE IF IsSome(FindRule(packageTs, name)) THEN Get(FindRule(packageTs, name))
  ELSE Get(FindRule(packageJs, name))

\* line 55: the first of js, ts, jsx that has the rule.
SourceRule(packageJs, packageTs, packageJsx, name) ==
  IF IsSome(FindRule(packageJs, name)) THEN Get(FindRule(packageJs, name))
  ELSE IF IsSome(FindRule(packageTs, name)) THEN Get(FindRule(packageTs, name))
  ELSE Get(FindRule(packageJsx, name))

\* A merged rule that keeps the ruleId of its source.
MergedRuleKeepsId(rule, name) == [rule EXCEPT !.originalId = None]

\* lines 56-60
MergedRule(rule, name) == [rule EXCEPT !.ruleId = At \o name, !.originalId = None]

\* A merge that builds the merged package as a new record and appends it.
MergePackagesAppended(ps) ==
  LET packageJs == FindByShortId(ps, <<"js">>)
      packageTs == FindByShortId(ps, <<"ts">>)
      packageJsx == FindByShortId(ps, <<"jsx">>)
      names == MergedNames(packageJs, packageTs, packageJsx)
  IN Append(ps, [ps[IndexOfName(ps, GeneralName)] EXCEPT
       !.rules = [i \in 1..Len(names) |->
                    MergedRule(SourceRule(packageJs, packageTs, packageJsx,
                                          names[i]), names[i])],
       !.shortId = <<"default">>])

\* lines 43-62: the record named '@stylistic/eslint-plugin' gets the merged
\* rules and the short id 'default'; it is the element of the list itself.
MergePackages(ps) ==
  LET packageJs == FindByShortId(ps, <<"js">>)
      packageTs == FindByShortId(ps, <<"ts">>)
      packageJsx == FindByShortId(ps, <<"jsx">>)
      general == IndexOfName(ps, GeneralName)
      names == MergedNames(packageJs, packageTs, packageJsx)
  IN [ps EXCEPT ![general] =
        [@ EXCEPT !.rules = [i \in 1..Len(names) |->
                               MergedRule(SourceRule(packageJs, packageTs, packageJsx,
                                                     names[i]), names[i])],
                  !.shortId = <<"default">>]]

\* JSON.stringify leaves out the members whose value is undefined.
Member(key, o) == IF IsSome(o) THEN << <<key, Get(o)>> >> ELSE <<>>
RuleJSON(r) ==
  << <<"name", r.name>>, <<"ruleId", r.ruleId>> >>
    \o Member("originalId", r.originalId)
    \o << <<"entry", r.entry>>, <<"docsEntry", r.docsEntry>>,
          <<"meta", Member("fixable", r.meta.fixable)
                      \o << <<"docs", Member("description", r.meta.docs.description)
                                        \o Member("recommended", r.meta.docs.recommended)>> >> >> >>
PackageJSON(p) ==
  << <<"name", p.name>>, <<"shortId", p.shortId>>, <<"pkgId", p.pkgId>>,
     <<"path", p.path>>,
     <<"rules", [i \in 1..Len(p.rules) |-> RuleJSON(p.rules[i])]>> >>

MetadataFile ==
  Join(Join(Join(Join(Cwd, <<"packages">>), <<"metadata">>), <<"src">>), <<"metadata", ".", "ts">>)
Metadata(ps) ==
  <<Header,
    <<"import type { PackageInfo, RuleInfo } from './types'">>,
    JSONStringify([i \in 1..Len(ps) |-> PackageJSON(ps[i])]),
    <<"export const rules = Object.freeze(packages.flatMap(p => p.rules))">> >>

(***************************************************************************)
(* The script as a state machine.                                          *)
(***************************************************************************)
NoTasks == [e \in {} |-> "pending"]

Start(files) ==
  /\ fs = files
  /\ proc = "running"
  /\ pc = "readPackage"
  /\ k = 1
  /\ loading = None
  /\ pkg = None
  /\ packages = <<>>
  /\ tasks = NoTasks
  /\ mode = "unset"
  /\ writeFailed = FALSE
  /\ assembled = <<>>
  /\ runNo = 1
  /\ firstRun = None

\* js holds two rules and ts one of them; one file the run writes cannot be
\* written.
FailRepo ==
  [d \in PackageDirs |->
     IF d = JsDir
     THEN [n \in {AllRuleNames[1], AllRuleNames[2]} |-> DocumentedModule(d)]
     ELSE IF d = TsDir THEN [n \in {AllRuleNames[1]} |-> DocumentedModule(d)]
     ELSE NoRules]

\* Every file a run over the catalog writes.
WriteTargets(catalog) ==
  {MetadataFile}
    \cup UNION {LET p == [path |-> Join(<<"packages">>, d)]
                IN {Abs(RulesIndexFile(p)), Abs(ReadmeFile(p)), Abs(RuleOptionsFile(p)),
                    Abs(DefineConfigFile(p)), Abs(Join(p.path, ManifestFile))}
                     \cup {Join(Join(Join(Join(PackagesRoot, d), <<"rules">>), n),
                                <<"types", ".", "d", ".", "ts">>) : n \in DOMAIN catalog[d]} :
                d \in {x \in PackageDirs : DOMAIN catalog[x] # {}}}

Inputs ==
  \/ repo \in Repos /\ unwritable = {}
  \/ repo = FailRepo /\ unwritable \in {{p} : p \in WriteTargets(FailRepo)}

Init == Inputs /\ Start(FreshFiles)

At_(label) == proc = "running" /\ pc = label

\* A rejected promise that nothing awaits or catches: run() itself (line 77)
\* and the callbacks generateDTS starts (line 266).  The runtime either
\* raises it as an uncaught exception, which ends the process at once, or
\* only reports it; which of the two is fixed for the process.
Unhandled ==
  \E m \in (IF mode = "unset" THEN {"throw", "warn"} ELSE {mode}) :
    /\ mode' = m
    /\ proc' = IF m = "throw" THEN "crashed" ELSE proc

\* line 34, up to the start of the loads of line 90
ReadPackage ==
  /\ At_("readPackage")
  /\ loading' = Some(ReadPackageLocals(Dirname(Paths[k]), fs, repo))
  /\ pc' = "loading"
  /\ UNCHANGED <<repo, unwritable, fs, proc, k, pkg, packages, tasks, mode, writeFailed,
                 assembled, runNo, firstRun>>

\* lines 91-122: the import() of rule directory i resolves.
Import(i) ==
  /\ At_("loading")
  /\ i \in 1..Len(Get(loading).rulesDir)
  /\ ~IsSome(Get(loading).settled[i])
  /\ LET l == Get(loading)
         mod == repo[l.dir][Basename(l.rulesDir[i])]
     IN loading' = Some([l EXCEPT !.settled =
          Collect(@, i, RuleInfoOf(l.path, l.pkgId, l.shortId, l.rulesDir[i], mod))])
  /\ UNCHANGED <<repo, unwritable, fs, proc, pc, k, pkg, packages, tasks, mode, writeFailed,
                 assembled, runNo, firstRun>>

\* lines 125-131: every load has settled and readPackage returns.
ReturnPackage ==
  /\ At_("loading")
  /\ \A i \in 1..Len(Get(loading).settled) : IsSome(Get(loading).settled[i])
  /\ pkg' = Some(PackageInfoOf(Get(loading)))
  /\ assembled' = Append(assembled, PackageInfoOf(Get(loading)))
  /\ loading' = None
  /\ pc' = "writeRulesIndex"
  /\ UNCHANGED <<repo, unwritable, fs, proc, k, packages, tasks, mode, writeFailed, runNo, firstRun>>

\* One awaited fs.writeFile of a writer, for a package that has rules.
Stage(label, file, content, next) ==
  /\ At_(label)
  /\ Get(pkg).rules # <<>>
  /\ Abs(file) \notin unwritable
  /\ fs' = WriteFile(fs, file, content)
  /\ pc' = next
  /\ UNCHANGED <<repo, unwritable, proc, k, loading, pkg, packages, tasks, mode, writeFailed,
                 assembled, runNo, firstRun>>

\* line 35
WriteRulesIndex ==
  Stage("writeRulesIndex", RulesIndexFile(Get(pkg)), RulesIndex(Get(pkg)), "writeREADME")

\* line 36
WriteREADME ==
  Stage("writeREADME", ReadmeFile(Get(pkg)), Readme(Get(pkg)), "generateDTS")

\* line 37: generateDTS starts one callback per rule and awaits none of them.
GenerateDTS ==
  /\ At_("generateDTS")
  /\ Get(pkg).rules # <<>>
  /\ tasks' = tasks @@ [e \in {Get(pkg).rules[i].entry : i \in 1..Len(Get(pkg).rules)} |->
                          "pending"]
  /\ pc' = "writePackageDTS"
  /\ UNCHANGED <<repo, unwritable, fs, proc, k, loading, pkg, packages, mode, writeFailed,
                 assembled, runNo, firstRun>>

\* lines 266-308: the callback of the rule at entry e runs to its end.
TypesTask(e) ==
  /\ proc = "running"
  /\ tasks[e] = "pending"
  /\ ~ThrowsTypeError(ImportEntry(repo, e))
  /\ TypesFile(e) \notin unwritable
  /\ fs' = WriteFile(fs, TypesFile(e),
                     TypesContent(Get(Get(ImportEntry(repo, e).default).meta)))
  /\ tasks' = [tasks EXCEPT ![e] = "written"]
  /\ UNCHANGED <<repo, unwritable, proc, pc, k, loading, pkg, packages, mode, writeFailed,
                 assembled, runNo, firstRun>>

\* lines 268-269: the callback throws, and its promise is rejected.
TaskTypeError(e) ==
  /\ proc = "running"
  /\ tasks[e] = "pending"
  /\ ThrowsTypeError(ImportEntry(repo, e))
  /\ tasks' = [tasks EXCEPT ![e] = "typeError"]
  /\ Unhandled
  /\ UNCHANGED <<repo, unwritable, fs, pc, k, loading, pkg, packages, writeFailed, assembled,
                 runNo, firstRun>>

\* line 308: the write of types.d.ts fails, and the callback's promise is rejected.
TaskWriteFails(e) ==
  /\ proc = "running"
  /\ tasks[e] = "pending"
  /\ ~ThrowsTypeError(ImportEntry(repo, e))
  /\ TypesFile(e) \in unwritable
  /\ tasks' = [tasks EXCEPT ![e] = "writeError"]
  /\ writeFailed' = TRUE
  /\ Unhandled
  /\ UNCHANGED <<repo, unwritable, fs, pc, k, loading, pkg, packages, assembled, runNo, firstRun>>

\* line 38, first write (lines 199-203)
WritePackageDTS ==
  Stage("writePackageDTS", RuleOptionsFile(Get(pkg)), RuleOptions(Get(pkg)),
        "writeDefineConfig")

\* line 38, second write (lines 205-217)
WriteDefineConfig ==
  Stage("writeDefineConfig", DefineConfigFile(Get(pkg)), DefineConfig, "updateExports")

\* line 40 and the loop of line 33: the package is pushed and the loop goes on
\* to the next path, or leaves for the merge.
PushPackage ==
  /\ packages' = Append(packages, Get(pkg))
  /\ pkg' = None
  /\ IF k < Len(Paths)
     THEN k' = k + 1 /\ pc' = "readPackage"
     ELSE k' = k /\ pc' = "merge"

\* lines 39-41: the export map is rewritten and the package is pushed.
UpdateExports ==
  /\ At_("updateExports")
  /\ Get(pkg).rules # <<>>
  /\ Abs(Join(Get(pkg).path, ManifestFile)) \notin unwritable
  /\ fs' = WriteFile(fs, Join(Get(pkg).path, ManifestFile), UpdatedManifest(fs, Get(pkg)))
  /\ PushPackage
  /\ UNCHANGED <<repo, unwritable, proc, loading, tasks, mode, writeFailed, assembled,
                 runNo, firstRun>>

\* lines 35-40 for a package without rules: every writer returns at once
\* (lines 135, 245, 161, 221), generateDTS has no rule to start a callback
\* for, and the package is pushed; no await in between waits for anything.
SkipWriters ==
  /\ At_("writeRulesIndex")
  /\ Get(pkg).rules = <<>>
  /\ PushPackage
  /\ UNCHANGED <<repo, unwritable, fs, proc, loading, tasks, mode, writeFailed,
                 assembled, runNo, firstRun>>

\* lines 43-62
Merge ==
  /\ At_("merge")
  /\ packages' = MergePackages(packages)
  /\ pc' = "writeMetadata"
  /\ UNCHANGED <<repo, unwritable, fs, proc, k, loading, pkg, tasks, mode, writeFailed,
                 assembled, runNo, firstRun>>

\* lines 64-74
WriteMetadata ==
  /\ At_("writeMetadata")
  /\ MetadataFile \notin unwritable
  /\ fs' = WriteFile(fs, MetadataFile, Metadata(packages))
  /\ pc' = "done"
  /\ UNCHANGED <<repo, unwritable, proc, k, loading, pkg, packages, tasks, mode, writeFailed,
                 assembled, runNo, firstRun>>

\* The file the writer run() stands in is about to write.
Target ==
  CASE pc = "writeRulesIndex" -> Abs(RulesIndexFile(Get(pkg)))
    [] pc = "writeREADME" -> Abs(ReadmeFile(Get(pkg)))
    [] pc = "writePackageDTS" -> Abs(RuleOptionsFile(Get(pkg)))
    [] pc = "writeDefineConfig" -> Abs(DefineConfigFile(Get(pkg)))
    [] pc = "updateExports" -> Abs(Join(Get(pkg).path, ManifestFile))
    [] OTHER -> MetadataFile

\* An awaited fs.writeFile of run() fails: the writer throws, run() is
\* rejected, and nothing handles the rejection (line 77).
WriteFails ==
  /\ proc = "running"
  /\ pc \in {"writeRulesIndex", "writeREADME", "writePackageDTS", "writeDefineConfig",
              "updateExports", "writeMetadata"}
  /\ Target \in unwritable
  /\ pc' = "rejected"
  /\ writeFailed' = TRUE
  /\ Unhandled
  /\ UNCHANGED <<repo, unwritable, fs, k, loading, pkg, packages, tasks, assembled, runNo, firstRun>>

\* Nothing is left to run: run() has settled and so has every callback.
Exit ==
  /\ proc = "running"
  /\ pc \in {"done", "rejected"}
  /\ \A e \in DOMAIN tasks : tasks[e] # "pending"
  /\ proc' = "exited"
  /\ UNCHANGED <<repo, unwritable, fs, pc, k, loading, pkg, packages, tasks, mode, writeFailed,
                 assembled, runNo, firstRun>>

Next ==
  \/ ReadPackage
  \/ \E i \in 1..Len(AllRuleNames) : Import(i)
  \/ ReturnPackage
  \/ WriteRulesIndex
  \/ WriteREADME
  \/ GenerateDTS
  \/ \E e \in DOMAIN tasks : TypesTask(e)
  \/ \E e \in DOMAIN tasks : TaskTypeError(e)
  \/ \E e \in DOMAIN tasks : TaskWriteFails(e)
  \/ WritePackageDTS
  \/ WriteDefineConfig
  \/ UpdateExports
  \/ SkipWriters
  \/ Merge
  \/ WriteMetadata
  \/ WriteFails
  \/ Exit

Spec == Init /\ [][Next]_vars

(***************************************************************************)
(* Two runs of the script, one after the other, over the same rule         *)
(* modules; the first may start from files an earlier version left behind. *)
(***************************************************************************)
\* The first run has ended without any rejection, and the script is started
\* again: line 77 once more, on the files as they are now.
SecondRun ==
  /\ proc = "exited"
  /\ pc = "done"
  /\ mode = "unset"
  /\ runNo = 1
  /\ runNo' = 2
  /\ firstRun' = Some(fs)
  /\ proc' = "running"
  /\ pc' = "readPackage"
  /\ k' = 1
  /\ packages' = <<>>
  /\ tasks' = NoTasks
  /\ assembled' = <<>>
  /\ UNCHANGED <<repo, unwritable, fs, loading, pkg, mode, writeFailed>>

\* Manifests that already hold an export map, written by hand, and generated
\* files with whatever an earlier run wrote.
StaleFiles(catalog) ==
  [p \in DOMAIN FreshFiles |->
     <<[format |-> "tabs",
        value |-> << << <<"exports">>, << << <<".">>, <<"./old.js">> >> >> >> >>
                   \o JSONParse(FreshFiles[p])]>>]
    @@ [p \in WriteTargets(catalog) |-> << <<"stale">> >>]

InputsTwice ==
  \/ repo \in ShapeRepos \cup GeneralRepos \cup {FailRepo} /\ unwritable = {}
  \/ repo = FailRepo /\ unwritable \in {{p} : p \in WriteTargets(FailRepo)}

InitTwice == InputsTwice /\ \E files \in {FreshFiles, StaleFiles(repo)} : Start(files)

NextTwice == Next \/ SecondRun

SpecTwice == InitTwice /\ [][NextTwice]_vars

(***************************************************************************)
(* The claims.                                                             *)
(***************************************************************************)
Merged == pc \in {"writeMetadata", "done"}

General == packages[IndexOfName(packages, GeneralName)]

\* C1 as stated: after the merge, every rule R of every package P of the
\* list, the merged package included, has R.ruleId = P.pkgId + "/" + R.name.
C1_RuleIdOfEveryPackage ==
  Merged =>
    \A i \in 1..Len(packages) : \A j \in 1..Len(packages[i].rules) :
      packages[i].rules[j].ruleId
        = packages[i].pkgId \o <<"/">> \o packages[i].rules[j].name

\* C1 amended: after the merge, every rule R of every package P other than
\* the merged one has R.ruleId = P.pkgId + "/" + R.name, and every rule R of
\* the merged package has R.ruleId = "@stylistic/" + R.name.
C1_RuleIdOfSourcePackages ==
  Merged =>
    \A i \in 1..Len(packages) : \A j \in 1..Len(packages[i].rules) :
      packages[i].rules[j].ruleId
        = IF packages[i].name = GeneralName
          THEN <<"@stylistic", "/">> \o packages[i].rules[j].name
          ELSE packages[i].pkgId \o <<"/">> \o packages[i].rules[j].name

C1_Witness ==
  /\ pc = "done"
  /\ General.rules # <<>>
  /\ \E i \in 1..Len(packages) :
       packages[i].name # GeneralName /\ packages[i].rules # <<>>

\* The rule names of js, ts and jsx, in that order, as the merge scans them.
Scanned ==
  Names(FindByShortId(packages, <<"js">>)) \o Names(FindByShortId(packages, <<"ts">>))
    \o Names(FindByShortId(packages, <<"jsx">>))

FirstAt(xs, x) == Min({i \in 1..Len(xs) : xs[i] = x})

\* C2: the merged package's rule names are exactly the names that occur in
\* js, ts or jsx, each once, in the order of their first occurrence when js,
\* ts and jsx are scanned in that order.
C2_MergedNamesAreTheUnion ==
  Merged =>
    LET merged == Names(General)
    IN /\ Range(merged) = DOMAIN repo[JsDir] \cup DOMAIN repo[TsDir] \cup DOMAIN repo[JsxDir]
       /\ \A i, j \in 1..Len(merged) : i < j => merged[i] # merged[j]
       /\ \A i, j \in 1..Len(merged) :
            i < j => FirstAt(Scanned, merged[i]) < FirstAt(Scanned, merged[j])

\* A name is in two of the sources, and the merged order is not the sorted one.
C2_Witness ==
  /\ pc = "done"
  /\ DOMAIN repo[JsDir] \cap DOMAIN repo[TsDir] # {}
  /\ \E i, j \in 1..Len(General.rules) :
       i < j /\ LexLess(General.rules[j].name, General.rules[i].name)

\* The packages js, ts, jsx of the list, in the order of precedence.
Sources ==
  <<FindByShortId(packages, <<"js">>), FindByShortId(packages, <<"ts">>),
    FindByShortId(packages, <<"jsx">>)>>

\* C3: every merged rule has the name, entry, docsEntry and meta of the rule
\* of that name in the first of js, ts, jsx that has one, the ruleId
\* "@stylistic/" + name, and no originalId.
C3_MergedRuleFromFirstSource ==
  Merged =>
    \A j \in 1..Len(General.rules) :
      LET m == General.rules[j]
          first == Min({s \in 1..3 : m.name \in Range(Names(Sources[s]))})
          r == CHOOSE r \in Range(Sources[first].rules) : r.name = m.name
      IN /\ m.entry = r.entry
         /\ m.docsEntry = r.docsEntry
         /\ m.meta = r.meta
         /\ m.ruleId = <<"@stylistic", "/">> \o m.name
         /\ m.originalId = None

\* A merged rule that two sources define differently.
C3_Witness ==
  /\ pc = "done"
  /\ \E j \in 1..Len(General.rules) :
       \E a, b \in 1..3 :
         /\ a < b
         /\ \E r \in Range(Sources[a].rules), q \in Range(Sources[b].rules) :
              /\ r.name = General.rules[j].name
              /\ q.name = r.name
              /\ q.meta # r.meta

\* The module of a rule lacks the meta descriptor, or all of its fields.
LacksMeta(mod) ==
  IF ThrowsTypeError(mod) THEN TRUE ELSE Get(Get(mod.default).meta) = EmptyMeta

\* C4 as stated: the callback generateDTS starts for a rule whose module has
\* no meta, or a meta without fields, never throws, and the types.d.ts it
\* writes declares the options [] and the message ids never.
C4_MissingMetaIsTolerated ==
  \A e \in DOMAIN tasks :
    LacksMeta(ImportEntry(repo, e)) =>
      /\ tasks[e] # "typeError"
      /\ tasks[e] = "written" =>
           fs[TypesFile(e)]
             = <<Header, <<"export type RuleOptions = ", "[", "]">>,
                 <<"export type MessageIds = ", "never">>, <<>> >>

\* C5: the types.d.ts a rule's callback has written holds, for each schema of
\* the rule, the compiled declaration if the schema compiles and the
\* placeholder 'export type Schema<i> = unknown' if it does not, whatever
\* the other schemas of the rule and the other rules do; and when every file
\* can be written, a callback is rejected only because its module has no
\* meta, never because a schema failed to compile.
C5_OnlyTheFailedSchemaIsUnknown ==
  \A e \in DOMAIN tasks :
    LET mod == ImportEntry(repo, e)
        meta == Get(Get(mod.default).meta)
        schemas == IF IsSome(meta.schema) THEN Get(meta.schema).items ELSE <<>>
    IN /\ (tasks[e] \in {"typeError", "writeError"} /\ unwritable = {})
            => ThrowsTypeError(mod)
       /\ tasks[e] = "written" =>
            /\ Len(fs[TypesFile(e)]) = Len(schemas) + 4
            /\ \A i \in 1..Len(schemas) :
                 fs[TypesFile(e)][i + 1]
                   = IF Resolves(Normalize(schemas[i]))
                     THEN Compiled(Normalize(schemas[i]), i - 1)
                     ELSE <<"export type Schema", ToString(i - 1), " = unknown", "\n">>

\* A rule with one schema that compiles and one that does not, and the other
\* rule of the package, have both got their files.
C5_Witness ==
  /\ proc = "exited"
  /\ pc = "done"
  /\ \E e, f \in DOMAIN tasks :
       /\ e # f
       /\ tasks[e] = "written"
       /\ tasks[f] = "written"
       /\ \E i, j \in 2..(Len(fs[TypesFile(e)]) - 3) :
            /\ fs[TypesFile(e)][i] = Placeholder(i - 2)
            /\ fs[TypesFile(e)][j] # Placeholder(j - 2)
       /\ fs[TypesFile(f)][2] # Placeholder(0)

\* The package list metadata.ts holds.
Published == JSONParse(<<fs[MetadataFile][3]>>)

\* C6 as stated: metadata.ts lists every discovered package as readPackage
\* assembled it, in discovery order, and then the merged package as one
\* more, last element.
C6_MergedPackageAppended ==
  pc = "done" =>
    /\ Len(Published) = Len(assembled) + 1
    /\ \A i \in 1..Len(assembled) : Published[i] = PackageJSON(assembled[i])

\* C6 amended: metadata.ts lists exactly the discovered packages, in
\* discovery order; each is as readPackage assembled it, except the one named
\* '@stylistic/eslint-plugin', which is the merged package: it keeps its
\* name, pkgId and path and its place in the list, its shortId is 'default'
\* and its rules are the merged rules.
C6_MergedPackageInPlace ==
  pc = "done" =>
    /\ Len(Published) = Len(Paths)
    /\ Len(assembled) = Len(Paths)
    /\ \A i \in 1..Len(Paths) :
         /\ assembled[i].path = Relative(Cwd, Dirname(Paths[i]))
         /\ Published[i]
              = IF assembled[i].name = GeneralName
                THEN PackageJSON([assembled[i] EXCEPT !.shortId = <<"default">>,
                                                      !.rules = General.rules])
                ELSE PackageJSON(assembled[i])

C6_Witness ==
  /\ pc = "done"
  /\ General.rules # <<>>
  /\ \E i \in 1..Len(assembled) :
       assembled[i].name = GeneralName /\ assembled[i].rules # <<>>

\* C7: when the script has run to its end without a rejection and is run
\* again over the same rule modules, every file is, after the second run,
\* what it was after the first.
C7_SecondRunChangesNothing ==
  (runNo = 2 /\ proc = "exited" /\ pc = "done" /\ mode = "unset") => fs = Get(firstRun)

\* The second run has ended after both runs wrote the generated files, the
\* types of several rules among them.
C7_Witness ==
  /\ runNo = 2
  /\ proc = "exited"
  /\ pc = "done"
  /\ mode = "unset"
  /\ Cardinality({e \in DOMAIN tasks : tasks[e] = "written"}) >= 2
  /\ IsSome(firstRun)
  /\ Cardinality(DOMAIN fs) > Cardinality(DOMAIN FreshFiles)

\* C8 as stated: once a write has failed, no file is written any more in the
\* run: the files stay as they were when the write failed.
C8_NoWriteAfterAFailedWrite == [][writeFailed => fs' = fs]_vars

\* C9: the rules of a package are in the order of the sorted rule
\* directories whatever the order in which the loads settle: the i-th
\* settled slot, and the i-th rule readPackage returns, is the rule of the
\* i-th directory.
C9_RulesInDirectoryOrder ==
  /\ IsSome(loading) =>
       /\ \A i, j \in 1..Len(Get(loading).rulesDir) :
            i < j => LexLess(Get(loading).rulesDir[i], Get(loading).rulesDir[j])
       /\ \A i \in 1..Len(Get(loading).settled) :
            IsSome(Get(loading).settled[i]) =>
              Get(Get(loading).settled[i]).name = Basename(Get(loading).rulesDir[i])
  /\ IsSome(pkg) =>
       /\ Range(Names(Get(pkg))) = DOMAIN repo[Relative(<<"packages">>, Get(pkg).path)]
       /\ \A i, j \in 1..Len(Get(pkg).rules) :
            i < j => LexLess(Get(pkg).rules[i].name, Get(pkg).rules[j].name)
       /\ \A i \in 1..Len(Get(pkg).rules) :
            Basename(Dirname(Get(pkg).rules[i].entry)) = Get(pkg).rules[i].name

\* The load of a later directory has settled before the load of an earlier one.
C9_Witness ==
  /\ IsSome(loading)
  /\ \E i, j \in 1..Len(Get(loading).settled) :
       /\ i < j
       /\ ~IsSome(Get(loading).settled[i])
       /\ IsSome(Get(loading).settled[j])

\* C10 as stated: a callback generateDTS started is unfinished only while
\* run() stands right behind the generateDTS call of the callback's own
\* package: no later stage, package, merge or metadata write begins before it.
C10_NothingBeginsBeforeTheTypesAreWritten ==
  \A e \in DOMAIN tasks :
    tasks[e] = "pending" =>
      /\ pc = "writePackageDTS"
      /\ e \in {Get(pkg).rules[i].entry : i \in 1..Len(Get(pkg).rules)}

====
